---- MODULE Spec2Model ----
(***************************************************************************)
(* Numerical decision threshold analysis (package ndt).                    *)
(*                                                                         *)
(*   ndt/thresholds.py   apply_threshold                                   *)
(*   ndt/metrics.py      confusion_counts, safe_div, metrics_from_counts,   *)
(*                       binary_metrics                                    *)
(*   ndt/core.py         analyze_threshold, sweep_thresholds               *)
(*                                                                         *)
(* The library is a set of functions over iterables.  An iterable is       *)
(* modelled by what a traversal of it yields: a list yields its items on   *)
(* every traversal, a generator yields them on the first traversal and     *)
(* nothing afterwards.  Scores and thresholds are integers standing for    *)
(* the reals (only their order matters to the code); the ratios that       *)
(* metrics_from_counts returns are exact fractions in lowest terms.        *)
(* Label sequences hold integers only, so the isinstance check of          *)
(* _to_list_int always passes.                                             *)
(***************************************************************************)
EXTENDS Integers, Sequences, FiniteSets, TLC

\* Longest scores / label sequence handed to a call.
MaxLen == 2
\* Longest thresholds sequence handed to sweep_thresholds.
MaxThs == 3
\* Largest count in a ConfusionCounts handed directly to metrics_from_counts.
MaxCount == 3

ScoreVals     == {1, 2}
ThresholdVals == {1, 2}
\* Values positive_label / negative_label are drawn from.
LabelVals     == {0, 1}
\* Values found in label sequences: 2 is outside every label pair.
ElemVals      == {0, 1, 2}

RECURSIVE SeqsUpTo(_, _)
SeqsUpTo(S, n) ==
    IF n = 0 THEN {<< >>}
    ELSE LET shorter == SeqsUpTo(S, n - 1)
         IN  shorter \cup {Append(s, x) : s \in {q \in shorter : Len(q) = n - 1}, x \in S}

Min(a, b) == IF a <= b THEN a ELSE b

-----------------------------------------------------------------------------
(* Iterables *)

\* A list: every traversal yields all items.
List(items) == [items |-> items, oneShot |-> FALSE, reads |-> 0]
\* A generator: the first traversal yields all items, later ones nothing.
Generator(items) == [items |-> items, oneShot |-> TRUE, reads |-> 0]
Iterable(items, lazy) == IF lazy THEN Generator(items) ELSE List(items)

\* What one full traversal (list(values), for x in values) yields.
Yield(it) == it.items
\* The iterable after one full traversal.
Consume(it) ==
    [items   |-> IF it.oneShot THEN << >> ELSE it.items,
     oneShot |-> it.oneShot,
     reads   |-> it.reads + 1]

-----------------------------------------------------------------------------
(* Outcomes of a call *)

Ok(v) == [kind |-> "ok", value |-> v]
LengthMismatch(n_true, n_pred) ==
    [kind |-> "error", exc |-> "ValueError", what |-> "LengthMismatch",
     name |-> "", index |-> n_true, value |-> n_pred]
LabelDomainError(name, i, v) ==
    [kind |-> "error", exc |-> "ValueError", what |-> "LabelDomain",
     name |-> name, index |-> i, value |-> v]
TypeKindError(name, i) ==
    [kind |-> "error", exc |-> "TypeError", what |-> "TypeKind",
     name |-> name, index |-> i, value |-> 0]
NoOutcome == [kind |-> "none"]

-----------------------------------------------------------------------------
(* ndt/thresholds.py *)

decide_gt(score, threshold, positive_label, negative_label) ==
    IF score > threshold THEN positive_label ELSE negative_label

\* The body of the loop: one decision.
decide(score, threshold, positive_label, negative_label) ==
    IF score >= threshold THEN positive_label ELSE negative_label

RECURSIVE apply_loop(_, _, _, _, _)
apply_loop(rest, decisions, threshold, positive_label, negative_label) ==
    IF rest = << >> THEN decisions
    ELSE apply_loop(Tail(rest),
                    Append(decisions,
                           decide(Head(rest), threshold, positive_label, negative_label)),
                    threshold, positive_label, negative_label)

\* apply_threshold over the items one traversal of scores yields.
apply_threshold(scores, threshold, positive_label, negative_label) ==
    apply_loop(scores, << >>, threshold, positive_label, negative_label)

-----------------------------------------------------------------------------
(* ndt/metrics.py: confusion counts *)

ConfusionCounts(tp, fp, tn, fn) == [tp |-> tp, fp |-> fp, tn |-> tn, fn |-> fn]

IsInt(v) == v \in Int

RECURSIVE first_non_int(_, _)
\* 1-based position of the first element from position i on that is not an
\* int, 0 when there is none.
first_non_int(out, i) ==
    IF i > Len(out) THEN 0
    ELSE IF ~IsInt(out[i]) THEN i
    ELSE first_non_int(out, i + 1)

\* _to_list_int on the items a traversal yields.
to_list_int(values, name) ==
    LET bad == first_non_int(values, 1)
    IN  IF bad # 0 THEN TypeKindError(name, bad - 1) ELSE Ok(values)

check_labels_pred_first(i, t, p, positive_label, negative_label) ==
    IF p \notin {positive_label, negative_label}
    THEN LabelDomainError("y_pred", i, p)
    ELSE IF t \notin {positive_label, negative_label}
    THEN LabelDomainError("y_true", i, t)
    ELSE Ok(TRUE)

\* The strict validation of one pair (i is the 0-based index).
check_labels(i, t, p, positive_label, negative_label) ==
    IF t \notin {positive_label, negative_label}
    THEN LabelDomainError("y_true", i, t)
    ELSE IF p \notin {positive_label, negative_label}
    THEN LabelDomainError("y_pred", i, p)
    ELSE Ok(TRUE)

tally_drop_fn(c, t_pos, p_pos) ==
    IF t_pos /\ p_pos THEN [c EXCEPT !.tp = @ + 1]
    ELSE IF (~t_pos) /\ p_pos THEN [c EXCEPT !.fp = @ + 1]
    ELSE IF (~t_pos) /\ (~p_pos) THEN [c EXCEPT !.tn = @ + 1]
    ELSE c

\* Increment the appropriate counter.
tally(c, t_pos, p_pos) ==
    IF t_pos /\ p_pos THEN [c EXCEPT !.tp = @ + 1]
    ELSE IF (~t_pos) /\ p_pos THEN [c EXCEPT !.fp = @ + 1]
    ELSE IF (~t_pos) /\ (~p_pos) THEN [c EXCEPT !.tn = @ + 1]
    ELSE [c EXCEPT !.fn = @ + 1]

is_positive_by_negative(v, positive_label, negative_label) == v # negative_label

\* The boolean flag of a label.
is_positive(v, positive_label, negative_label) == v = positive_label

RECURSIVE count_loop(_, _, _, _, _, _, _)
\* for i, (t, p) in enumerate(zip(yt, yp)), from 1-based position i on.
count_loop(yt, yp, i, c, positive_label, negative_label, strict_labels) ==
    IF i > Min(Len(yt), Len(yp)) THEN Ok(c)
    ELSE LET t == yt[i]
             p == yp[i]
             checked == IF strict_labels
                        THEN check_labels(i - 1, t, p, positive_label, negative_label)
                        ELSE Ok(TRUE)
         IN  IF checked.kind = "error" THEN checked
             ELSE count_loop(yt, yp, i + 1,
                             tally(c,
                                   is_positive(t, positive_label, negative_label),
                                   is_positive(p, positive_label, negative_label)),
                             positive_label, negative_label, strict_labels)

confusion_counts_no_length_check(y_true, y_pred, positive_label, negative_label, strict_labels) ==
    count_loop(y_true, y_pred, 1, ConfusionCounts(0, 0, 0, 0),
               positive_label, negative_label, strict_labels)

\* confusion_counts over the items one traversal of y_true and of y_pred yields.
confusion_counts(y_true, y_pred, positive_label, negative_label, strict_labels) ==
    LET yt == to_list_int(y_true, "y_true")
    IN  IF yt.kind = "error" THEN yt
        ELSE LET yp == to_list_int(y_pred, "y_pred")
             IN  IF yp.kind = "error" THEN yp
                 ELSE IF Len(yt.value) # Len(yp.value)
                 THEN LengthMismatch(Len(yt.value), Len(yp.value))
                 ELSE count_loop(yt.value, yp.value, 1, ConfusionCounts(0, 0, 0, 0),
                                 positive_label, negative_label, strict_labels)

-----------------------------------------------------------------------------
(* ndt/metrics.py: derived metrics.  A number is a fraction num/den in     *)
(* lowest terms with den > 0, so equal values are equal records.           *)

RECURSIVE GCD(_, _)
GCD(a, b) == IF b = 0 THEN a ELSE GCD(b, a % b)

Frac(n, d) == LET g == GCD(n, d) IN [num |-> n \div g, den |-> d \div g]
Zero == [num |-> 0, den |-> 1]
One  == [num |-> 1, den |-> 1]
FromInt(n) == [num |-> n, den |-> 1]
Plus(a, b)  == Frac(a.num * b.den + b.num * a.den, a.den * b.den)
Times(a, b) == Frac(a.num * b.num, a.den * b.den)

safe_div_one_on_zero(n, d) ==
    IF d.num = 0 THEN One ELSE Frac(n.num * d.den, n.den * d.num)

\* Return n / d, or 0.0 if d == 0.
safe_div(n, d) ==
    IF d.num = 0 THEN Zero ELSE Frac(n.num * d.den, n.den * d.num)

metrics_from_counts(c) ==
    LET tp == c.tp
        fp == c.fp
        tn == c.tn
        fn == c.fn
        total == tp + fp + tn + fn
        accuracy    == safe_div(FromInt(tp + tn), FromInt(total))
        precision   == safe_div(FromInt(tp), FromInt(tp + fp))
        recall      == safe_div(FromInt(tp), FromInt(tp + fn))
        specificity == safe_div(FromInt(tn), FromInt(tn + fp))
        f1  == safe_div(Times(Times(FromInt(2), precision), recall),
                        Plus(precision, recall))
        fpr == safe_div(FromInt(fp), FromInt(fp + tn))
        fnr == safe_div(FromInt(fn), FromInt(fn + tp))
    IN  [counts      |-> [tp |-> tp, fp |-> fp, tn |-> tn, fn |-> fn],
         accuracy    |-> accuracy,
         precision   |-> precision,
         recall      |-> recall,
         specificity |-> specificity,
         f1          |-> f1,
         fpr         |-> fpr,
         fnr         |-> fnr]

binary_metrics_swapped(y_true, y_pred, positive_label, negative_label, strict_labels) ==
    LET c == confusion_counts(y_pred, y_true, positive_label, negative_label, strict_labels)
    IN  IF c.kind = "error" THEN c ELSE Ok(metrics_from_counts(c.value))

\* binary_metrics over the items one traversal of y_true and of y_pred yields.
binary_metrics(y_true, y_pred, positive_label, negative_label, strict_labels) ==
    LET c == confusion_counts(y_true, y_pred, positive_label, negative_label, strict_labels)
    IN  IF c.kind = "error" THEN c ELSE Ok(metrics_from_counts(c.value))

-----------------------------------------------------------------------------
(* ndt/core.py *)

ThresholdAnalysisResult(threshold, y_pred, counts, metrics) ==
    [threshold |-> threshold, y_pred |-> y_pred, counts |-> counts, metrics |-> metrics]

\* analyze_threshold on the iterables scores and y_true: the outcome, and the
\* two iterables as the call leaves them.  scores is traversed by
\* apply_threshold; y_true is traversed by confusion_counts and, when that
\* returned, a second time by binary_metrics.
analyze_threshold(scores, y_true, threshold, positive_label, negative_label, strict_labels) ==
    LET y_pred  == apply_threshold(Yield(scores), threshold, positive_label, negative_label)
        scores1 == Consume(scores)
        counts  == confusion_counts(Yield(y_true), y_pred,
                                    positive_label, negative_label, strict_labels)
        y_true1 == Consume(y_true)
        metrics == binary_metrics(Yield(y_true1), y_pred,
                                  positive_label, negative_label, strict_labels)
        y_true2 == Consume(y_true1)
    IN  IF counts.kind = "error"
        THEN [outcome |-> counts, scores |-> scores1, y_true |-> y_true1]
        ELSE IF metrics.kind = "error"
        THEN [outcome |-> metrics, scores |-> scores1, y_true |-> y_true2]
        ELSE [outcome |-> Ok(ThresholdAnalysisResult(threshold, y_pred,
                                                     counts.value, metrics.value)),
              scores  |-> scores1,
              y_true  |-> y_true2]

iter_next_sorted(it) ==
    LET m == CHOOSE i \in 1..Len(it) : \A j \in 1..Len(it) :
                 it[i] < it[j] \/ (it[i] = it[j] /\ i <= j)
    IN  [item |-> it[m],
         rest |-> SubSeq(it, 1, m - 1) \o SubSeq(it, m + 1, Len(it))]

\* for th in thresholds: the next element and the iterator after it.
iter_next(it) == [item |-> Head(it), rest |-> Tail(it)]

-----------------------------------------------------------------------------
(* The calls.  pc is "idle" between calls, "sweep" inside the loop of      *)
(* sweep_thresholds and "done" when the call has returned or raised.       *)

VARIABLES pc, op, args, scores, y_true, thresholds, ths_iter, results, ret

vars == <<pc, op, args, scores, y_true, thresholds, ths_iter, results, ret>>

NoArgs ==
    [scores |-> << >>, y_true |-> << >>, y_pred |-> << >>, thresholds |-> << >>,
     threshold |-> 0, positive_label |-> 1, negative_label |-> 0,
     strict_labels |-> TRUE, counts |-> ConfusionCounts(0, 0, 0, 0)]

Scores     == SeqsUpTo(ScoreVals, MaxLen)
Labels     == SeqsUpTo(ElemVals, MaxLen)
Thresholds == SeqsUpTo(ThresholdVals, MaxThs)
Counts     == 0..MaxCount
\* Two distinct label values.
LabelPairs == {lp \in LabelVals \X LabelVals : lp[1] # lp[2]}

Init ==
    /\ pc = "idle"
    /\ op = "none"
    /\ args = NoArgs
    /\ scores = List(<< >>)
    /\ y_true = List(<< >>)
    /\ thresholds = List(<< >>)
    /\ ths_iter = << >>
    /\ results = << >>
    /\ ret = NoOutcome

CallApplyThreshold ==
    /\ pc = "idle"
    /\ \E s \in Scores, lazy \in BOOLEAN, t \in ThresholdVals,
          pos \in LabelVals, neg \in LabelVals :
          /\ args' = [NoArgs EXCEPT !.scores = s, !.threshold = t,
                                    !.positive_label = pos, !.negative_label = neg]
          /\ scores' = Consume(Iterable(s, lazy))
          /\ ret' = Ok(apply_threshold(Yield(Iterable(s, lazy)), t, pos, neg))
    /\ op' = "apply_threshold"
    /\ pc' = "done"
    /\ UNCHANGED <<y_true, thresholds, ths_iter, results>>

CallConfusionCounts ==
    /\ pc = "idle"
    /\ \E yt \in Labels, yp \in Labels, pos \in LabelVals, neg \in LabelVals,
          strict \in BOOLEAN :
          /\ args' = [NoArgs EXCEPT !.y_true = yt, !.y_pred = yp,
                                    !.positive_label = pos, !.negative_label = neg,
                                    !.strict_labels = strict]
          /\ ret' = confusion_counts(yt, yp, pos, neg, strict)
    /\ op' = "confusion_counts"
    /\ pc' = "done"
    /\ UNCHANGED <<scores, y_true, thresholds, ths_iter, results>>

CallMetricsFromCounts ==
    /\ pc = "idle"
    /\ \E tp \in Counts, fp \in Counts, tn \in Counts, fn \in Counts :
          /\ args' = [NoArgs EXCEPT !.counts = ConfusionCounts(tp, fp, tn, fn)]
          /\ ret' = Ok(metrics_from_counts(ConfusionCounts(tp, fp, tn, fn)))
    /\ op' = "metrics_from_counts"
    /\ pc' = "done"
    /\ UNCHANGED <<scores, y_true, thresholds, ths_iter, results>>

CallAnalyzeThreshold ==
    /\ pc = "idle"
    /\ \E s \in Scores, lazy_s \in BOOLEAN, yt \in Labels, lazy_y \in BOOLEAN,
          t \in ThresholdVals, lp \in LabelPairs, strict \in BOOLEAN :
          LET r == analyze_threshold(Iterable(s, lazy_s), Iterable(yt, lazy_y),
                                     t, lp[1], lp[2], strict)
          IN  /\ args' = [NoArgs EXCEPT !.scores = s, !.y_true = yt, !.threshold = t,
                                        !.positive_label = lp[1],
                                        !.negative_label = lp[2],
                                        !.strict_labels = strict]
              /\ scores' = r.scores
              /\ y_true' = r.y_true
              /\ ret' = r.outcome
    /\ op' = "analyze_threshold"
    /\ pc' = "done"
    /\ UNCHANGED <<thresholds, ths_iter, results>>

\* sweep_thresholds up to the head of its loop: results = [] and the iterator
\* over thresholds is taken.
CallSweepThresholds ==
    /\ pc = "idle"
    /\ \E s \in Scores, lazy_s \in BOOLEAN, yt \in Labels, lazy_y \in BOOLEAN,
          ths \in Thresholds, lazy_t \in BOOLEAN, lp \in LabelPairs,
          strict \in BOOLEAN :
          /\ args' = [NoArgs EXCEPT !.scores = s, !.y_true = yt, !.thresholds = ths,
                                    !.positive_label = lp[1],
                                    !.negative_label = lp[2],
                                    !.strict_labels = strict]
          /\ scores' = Iterable(s, lazy_s)
          /\ y_true' = Iterable(yt, lazy_y)
          /\ thresholds' = Consume(Iterable(ths, lazy_t))
          /\ ths_iter' = Yield(Iterable(ths, lazy_t))
    /\ results' = << >>
    /\ ret' = NoOutcome
    /\ op' = "sweep_thresholds"
    /\ pc' = "sweep"

SweepStepSwallow ==
    /\ pc = "sweep"
    /\ ths_iter # << >>
    /\ LET nx == iter_next(ths_iter)
           r  == analyze_threshold(scores, y_true, nx.item, args.positive_label,
                                   args.negative_label, args.strict_labels)
       IN  /\ ths_iter' = nx.rest
           /\ scores' = r.scores
           /\ y_true' = r.y_true
           /\ results' = IF r.outcome.kind = "error" THEN results
                         ELSE Append(results, r.outcome.value)
           /\ UNCHANGED <<pc, ret>>
    /\ UNCHANGED <<op, args, thresholds>>

\* One iteration of the loop: analyze_threshold on the next threshold; its
\* result is appended, its exception leaves sweep_thresholds.
SweepStep ==
    /\ pc = "sweep"
    /\ ths_iter # << >>
    /\ LET nx == iter_next(ths_iter)
           r  == analyze_threshold(scores, y_true, nx.item, args.positive_label,
                                   args.negative_label, args.strict_labels)
       IN  /\ ths_iter' = nx.rest
           /\ scores' = r.scores
           /\ y_true' = r.y_true
           /\ IF r.outcome.kind = "error"
              THEN /\ ret' = r.outcome
                   /\ pc' = "done"
                   /\ UNCHANGED results
              ELSE /\ results' = Append(results, r.outcome.value)
                   /\ UNCHANGED <<pc, ret>>
    /\ UNCHANGED <<op, args, thresholds>>

\* The loop is exhausted: return results.
SweepReturn ==
    /\ pc = "sweep"
    /\ ths_iter = << >>
    /\ ret' = Ok(results)
    /\ pc' = "done"
    /\ UNCHANGED <<op, args, scores, y_true, thresholds, ths_iter, results>>

\* The caller drops the outcome; the next call starts from fresh arguments.
Return ==
    /\ pc = "done"
    /\ pc' = "idle"
    /\ op' = "none"
    /\ args' = NoArgs
    /\ scores' = List(<< >>)
    /\ y_true' = List(<< >>)
    /\ thresholds' = List(<< >>)
    /\ ths_iter' = << >>
    /\ results' = << >>
    /\ ret' = NoOutcome

Next ==
    \/ CallApplyThreshold
    \/ CallConfusionCounts
    \/ CallMetricsFromCounts
    \/ CallAnalyzeThreshold
    \/ CallSweepThresholds
    \/ SweepStep
    \/ SweepReturn
    \/ Return

Spec == Init /\ [][Next]_vars

-----------------------------------------------------------------------------
(* Properties *)

Done(o) == pc = "done" /\ op = o

Positions(s) == 1..Len(s)

\* C1: apply_threshold returns a sequence as long as scores whose element i is
\* positive_label when scores[i] >= threshold and negative_label otherwise
\* (equality gives positive_label; empty scores give an empty result).
C1_ApplyThresholdPointwise ==
    Done("apply_threshold") =>
        /\ ret.kind = "ok"
        /\ Len(ret.value) = Len(args.scores)
        /\ \A i \in Positions(args.scores) :
              /\ args.scores[i] >= args.threshold => ret.value[i] = args.positive_label
              /\ args.scores[i] < args.threshold => ret.value[i] = args.negative_label

C1_Witness ==
    /\ Done("apply_threshold")
    /\ args.positive_label # args.negative_label
    /\ \E i \in Positions(args.scores) :
          args.scores[i] = args.threshold /\ ret.value[i] = args.positive_label
    /\ \E i \in Positions(args.scores) :
          args.scores[i] < args.threshold /\ ret.value[i] = args.negative_label

\* C2: whenever confusion_counts returns, the four counts are non-negative and
\* tp + fp + tn + fn equals len(y_true).
C2_CountsConserved ==
    (Done("confusion_counts") /\ ret.kind = "ok") =>
        /\ ret.value.tp >= 0 /\ ret.value.fp >= 0
        /\ ret.value.tn >= 0 /\ ret.value.fn >= 0
        /\ ret.value.tp + ret.value.fp + ret.value.tn + ret.value.fn = Len(args.y_true)

C2_Witness ==
    /\ Done("confusion_counts")
    /\ ret.kind = "ok"
    /\ Len(args.y_true) = 2
    /\ ret.value.fn = 1
    /\ ret.value.fp = 1

InDomain(v) == v \in {args.positive_label, args.negative_label}
Offending(i) == ~InDomain(args.y_true[i]) \/ ~InDomain(args.y_pred[i])
FirstOffending ==
    CHOOSE i \in Positions(args.y_true) :
        Offending(i) /\ \A j \in 1..(i - 1) : ~Offending(j)

\* C3: in strict mode, on sequences of equal length, confusion_counts fails with
\* the label-domain error exactly when some element of y_true or y_pred is
\* neither label, and the error names the sequence, 0-based index and value of
\* the offending element of lowest index, y_true before y_pred.
C3_StrictLabelDomain ==
    (Done("confusion_counts") /\ args.strict_labels
         /\ Len(args.y_true) = Len(args.y_pred)) =>
        IF \E i \in Positions(args.y_true) : Offending(i)
        THEN LET k == FirstOffending
             IN  ret = IF ~InDomain(args.y_true[k])
                       THEN LabelDomainError("y_true", k - 1, args.y_true[k])
                       ELSE LabelDomainError("y_pred", k - 1, args.y_pred[k])
        ELSE ret.kind = "ok"

C3_Witness ==
    /\ Done("confusion_counts")
    /\ args.strict_labels
    /\ Len(args.y_true) = 2 /\ Len(args.y_pred) = 2
    /\ ~Offending(1)
    /\ ~InDomain(args.y_true[2]) /\ ~InDomain(args.y_pred[2])
    /\ ret = LabelDomainError("y_true", 1, args.y_true[2])

PairsWhere(true_pos, pred_pos) ==
    Cardinality({i \in Positions(args.y_true) :
                    /\ (args.y_true[i] = args.positive_label) = true_pos
                    /\ (args.y_pred[i] = args.positive_label) = pred_pos})

\* C4: in non-strict mode, on sequences of equal length, confusion_counts
\* returns counts decided by value == positive_label alone, and the same counts
\* for every negative_label.
C4_NonStrictOnlyPositiveMatters ==
    (Done("confusion_counts") /\ ~args.strict_labels
         /\ Len(args.y_true) = Len(args.y_pred)) =>
        /\ ret = Ok(ConfusionCounts(PairsWhere(TRUE, TRUE), PairsWhere(FALSE, TRUE),
                                    PairsWhere(FALSE, FALSE), PairsWhere(TRUE, FALSE)))
        /\ \A neg \in ElemVals :
              confusion_counts(args.y_true, args.y_pred, args.positive_label,
                               neg, FALSE) = ret

C4_Witness ==
    /\ Done("confusion_counts")
    /\ ~args.strict_labels
    /\ Len(args.y_true) = 2 /\ Len(args.y_pred) = 2
    /\ ~InDomain(args.y_true[1]) /\ args.y_pred[1] = args.positive_label
    /\ args.y_true[2] = args.positive_label /\ ~InDomain(args.y_pred[2])
    /\ ret = Ok(ConfusionCounts(0, 1, 0, 1))

InUnit(x) == x.den > 0 /\ 0 <= x.num /\ x.num <= x.den

\* C5: metrics_from_counts returns, every ratio lies in [0, 1], and a ratio
\* whose denominator is zero is 0.
C5_RatiosInUnitInterval ==
    Done("metrics_from_counts") =>
        LET c == args.counts
            m == ret.value
        IN  /\ ret.kind = "ok"
            /\ InUnit(m.accuracy) /\ InUnit(m.precision) /\ InUnit(m.recall)
            /\ InUnit(m.specificity) /\ InUnit(m.f1) /\ InUnit(m.fpr) /\ InUnit(m.fnr)
            /\ c.tp + c.fp + c.tn + c.fn = 0 => m.accuracy = Zero
            /\ c.tp + c.fp = 0 => m.precision = Zero
            /\ c.tp + c.fn = 0 => m.recall = Zero
            /\ c.tn + c.fp = 0 => m.specificity = Zero /\ m.fpr = Zero
            /\ c.fn + c.tp = 0 => m.fnr = Zero
            /\ Plus(m.precision, m.recall) = Zero => m.f1 = Zero

C5_Witness ==
    /\ Done("metrics_from_counts")
    /\ args.counts = ConfusionCounts(0, 0, 2, 2)
    /\ ret.value.precision = Zero
    /\ ret.value.recall = Zero
    /\ ret.value.f1 = Zero
    /\ ret.value.specificity = One

\* C6: a successful sweep_thresholds has one entry per threshold supplied, the
\* i-th carrying the i-th threshold: the order supplied, nothing sorted or
\* dropped.
C6_SweepOrderPreserved ==
    (Done("sweep_thresholds") /\ ret.kind = "ok") =>
        /\ Len(ret.value) = Len(args.thresholds)
        /\ \A i \in Positions(args.thresholds) :
              ret.value[i].threshold = args.thresholds[i]

C6_Witness ==
    /\ Done("sweep_thresholds")
    /\ ret.kind = "ok"
    /\ Len(args.thresholds) >= 2
    /\ args.thresholds[1] > args.thresholds[2]
    /\ Len(args.scores) >= 1

AnalyzeWithLists(th) ==
    analyze_threshold(List(args.scores), List(args.y_true), th, args.positive_label,
                      args.negative_label, args.strict_labels).outcome

SweepWithLists ==
    LET outs == [i \in Positions(args.thresholds) |->
                    AnalyzeWithLists(args.thresholds[i])]
        failing == {i \in Positions(args.thresholds) : outs[i].kind = "error"}
    IN  IF failing = {}
        THEN Ok([i \in Positions(args.thresholds) |-> outs[i].value])
        ELSE outs[CHOOSE i \in failing : \A j \in failing : i <= j]

\* C7: analyze_threshold and sweep_thresholds materialize their inputs once, so
\* the outcome of a call on one-shot inputs is the outcome of the same call on
\* the equivalent lists.
C7_MaterializedOnce ==
    /\ Done("analyze_threshold") => ret = AnalyzeWithLists(args.threshold)
    /\ Done("sweep_thresholds") => ret = SweepWithLists

\* C8: analyze_threshold fails with the length-mismatch error whenever the
\* number of scores differs from the number of true labels, whatever the
\* threshold, the mode and the labels in y_true; so does confusion_counts when
\* len(y_true) differs from len(y_pred).
C8_LengthMismatchRaised ==
    /\ (Done("analyze_threshold") /\ Len(args.scores) # Len(args.y_true)) =>
          ret = LengthMismatch(Len(args.y_true), Len(args.scores))
    /\ (Done("confusion_counts") /\ Len(args.y_true) # Len(args.y_pred)) =>
          ret = LengthMismatch(Len(args.y_true), Len(args.y_pred))

C8_Witness ==
    /\ Done("analyze_threshold")
    /\ args.strict_labels
    /\ Len(args.scores) = 2
    /\ Len(args.y_true) = 1
    /\ ~InDomain(args.y_true[1])
    /\ ret = LengthMismatch(1, 2)

NextEvaluation ==
    analyze_threshold(scores, y_true, Head(ths_iter), args.positive_label,
                      args.negative_label, args.strict_labels).outcome

\* C9: when the evaluation of a threshold fails inside sweep_thresholds, the
\* sweep ends there with that very error, the results gathered so far are not
\* returned, and no later threshold is evaluated.
C9_SweepFailFast ==
    [][/\ (pc = "sweep" /\ ths_iter # << >> /\ NextEvaluation.kind = "error") =>
             /\ pc' = "done"
             /\ ret' = NextEvaluation
             /\ results' = results
       /\ (pc = "done" /\ op = "sweep_thresholds") =>
             /\ pc' = "idle"
             /\ ret' = NoOutcome]_vars

C9_Witness ==
    /\ Done("sweep_thresholds")
    /\ ret.kind = "error"
    /\ Len(results) >= 1
    /\ ths_iter # << >>

====
